---- MODULE Spec2Model ----
(***************************************************************************)
(* pwdgen: a password generator.  The script is one linear run: validate   *)
(* the arguments, build the character set in two phases, then sample.      *)
(*                                                                         *)
(* Characters are one-character strings.  A Python str is the tuple of its *)
(* characters.  The 94 permitted characters are represented by one         *)
(* character for every region the flag sets cut out of them:               *)
(*   "1" binary digit, "7" octal non-binary digit, "9" other digit,        *)
(*   "a" lowercase hex letter, "z" other lowercase letter,                 *)
(*   "A" uppercase hex letter, "Z" other uppercase letter, "@" symbol.     *)
(* " " stands for the characters outside the permitted set.                *)
(***************************************************************************)
EXTENDS Integers, Sequences, FiniteSets, TLC

\* Largest length argument explored.
MaxLength == 4

\* Largest number of flags passed together when only the character set is built.
MaxFlags == 2

VARIABLES namespace, excluded_set, included_set, character_set,
          character_list, password, buckets, count, i, pc, error, output, draws

vars == <<namespace, excluded_set, included_set, character_set,
          character_list, password, buckets, count, i, pc, error, output, draws>>

----------------------------------------------------------------------------
\* string constants (from string import ...)

digits == <<"1", "7", "9">>
octdigits == <<"1", "7">>
punctuation == <<"@">>
ascii_lowercase == <<"a", "z">>
ascii_uppercase == <<"A", "Z">>

\* set(s): the set of characters of a string
set(s) == {s[n] : n \in DOMAIN s}

\* c in s, for a one-character c and a string s
In(c, s) == \E n \in DOMAIN s : s[n] = c

LOWERCASE == set(ascii_lowercase)
UPPERCASE == set(ascii_uppercase)
LETTER == LOWERCASE \cup UPPERCASE
DIGIT == set(digits)
ALPHANUMERIC == LETTER \cup DIGIT
SYMBOL == set(punctuation)
ALL == ALPHANUMERIC \cup SYMBOL
BINARY == set(<<"1">>)
OCTAL == set(octdigits)
HEX_LOWER == DIGIT \cup set(<<"a">>)
HEX_UPPER == DIGIT \cup set(<<"A">>)

\* the store_true options of the parser
Flags == {"lowercase", "uppercase", "digit", "symbol", "letter", "alphanumeric",
          "all", "empty", "binary", "octal", "hex_lower", "hex_upper"}

\* values of --include and --exclude explored
IncludeArgs == {<<>>, <<"@">>, <<"a", "1", "a">>, <<" ">>}
ExcludeArgs == {<<>>, <<"@">>, <<"9", "z">>, <<"a", " ">>}

NoOutput == <<"nothing printed">>

----------------------------------------------------------------------------
\* the pieces of the script

\* mutant: zero passes the length check
LengthNegative(n) == n < 0

\* namespace.length <= 0
LengthInvalid(n) == n <= 0

\* mutant: only the included characters are sanitized
UnauthorizedIncludeOnly(exc, inc) == {c \in inc : c \notin ALL}

\* the characters the sanitize loop rejects
Unauthorized(exc, inc) == {c \in exc \cup inc : c \notin ALL}

\* mutant: a difference instead of the intersection
ConflictDifference(exc, inc) == exc \ inc

\* excluded_set & included_set
Conflict(exc, inc) == exc \cap inc

\* mutant: --hex-upper adds the lowercase hexadecimal digits
Phase1HexSlip(f, empty) ==
  IF "all" \in f THEN ALL
  ELSE LET s0 == {}
           s1 == IF "lowercase" \in f THEN s0 \cup LOWERCASE ELSE s0
           s2 == IF "uppercase" \in f THEN s1 \cup UPPERCASE ELSE s1
           s3 == IF "letter" \in f THEN s2 \cup LETTER ELSE s2
           s4 == IF "digit" \in f THEN s3 \cup DIGIT ELSE s3
           s5 == IF "alphanumeric" \in f THEN s4 \cup ALPHANUMERIC ELSE s4
           s6 == IF "symbol" \in f THEN s5 \cup SYMBOL ELSE s5
           s7 == IF "binary" \in f THEN s6 \cup BINARY ELSE s6
           s8 == IF "octal" \in f THEN s7 \cup OCTAL ELSE s7
           s9 == IF "hex_lower" \in f THEN s8 \cup HEX_LOWER ELSE s8
           s10 == IF "hex_upper" \in f THEN s9 \cup HEX_LOWER ELSE s9
       IN IF s10 = {} /\ ~empty THEN ALL ELSE s10

\* mutant: the default applies whenever no flag set was added, --empty or not
Phase1DefaultIgnoresEmpty(f, empty) ==
  IF "all" \in f THEN ALL
  ELSE LET s0 == {}
           s1 == IF "lowercase" \in f THEN s0 \cup LOWERCASE ELSE s0
           s2 == IF "uppercase" \in f THEN s1 \cup UPPERCASE ELSE s1
           s3 == IF "letter" \in f THEN s2 \cup LETTER ELSE s2
           s4 == IF "digit" \in f THEN s3 \cup DIGIT ELSE s3
           s5 == IF "alphanumeric" \in f THEN s4 \cup ALPHANUMERIC ELSE s4
           s6 == IF "symbol" \in f THEN s5 \cup SYMBOL ELSE s5
           s7 == IF "binary" \in f THEN s6 \cup BINARY ELSE s6
           s8 == IF "octal" \in f THEN s7 \cup OCTAL ELSE s7
           s9 == IF "hex_lower" \in f THEN s8 \cup HEX_LOWER ELSE s8
           s10 == IF "hex_upper" \in f THEN s9 \cup HEX_UPPER ELSE s9
       IN IF s10 = {} THEN ALL ELSE s10

\* phase 1: the chain of if statements over the flags
Phase1(f, empty) ==
  IF "all" \in f THEN ALL
  ELSE LET s0 == {}
           s1 == IF "lowercase" \in f THEN s0 \cup LOWERCASE ELSE s0
           s2 == IF "uppercase" \in f THEN s1 \cup UPPERCASE ELSE s1
           s3 == IF "letter" \in f THEN s2 \cup LETTER ELSE s2
           s4 == IF "digit" \in f THEN s3 \cup DIGIT ELSE s3
           s5 == IF "alphanumeric" \in f THEN s4 \cup ALPHANUMERIC ELSE s4
           s6 == IF "symbol" \in f THEN s5 \cup SYMBOL ELSE s5
           s7 == IF "binary" \in f THEN s6 \cup BINARY ELSE s6
           s8 == IF "octal" \in f THEN s7 \cup OCTAL ELSE s7
           s9 == IF "hex_lower" \in f THEN s8 \cup HEX_LOWER ELSE s8
           s10 == IF "hex_upper" \in f THEN s9 \cup HEX_UPPER ELSE s9
       IN IF s10 = {} /\ ~empty THEN ALL ELSE s10

\* mutant: the excluded characters are not removed
Phase2NoExclude(cs, inc, exc) == cs \cup inc

\* phase 2: character_set |= included_set; character_set -= excluded_set
Phase2(cs, inc, exc) == (cs \cup inc) \ exc

\* mutant: the digit test is missing, digits fall through to the else branch
ClassifyNoDigitTest(list) ==
  [DIGITS |-> {},
   ASCII_LOWERCASE |-> {c \in list : In(c, ascii_lowercase)},
   ASCII_UPPERCASE |-> {c \in list : ~In(c, ascii_lowercase) /\ In(c, ascii_uppercase)},
   PUNCTUATION |-> {c \in list : ~In(c, ascii_lowercase) /\ ~In(c, ascii_uppercase)}]

\* classify characters into 4 categories (if / elif / elif / else)
Classify(list) ==
  [DIGITS |-> {c \in list : In(c, digits)},
   ASCII_LOWERCASE |-> {c \in list : ~In(c, digits) /\ In(c, ascii_lowercase)},
   ASCII_UPPERCASE |-> {c \in list : ~In(c, digits) /\ ~In(c, ascii_lowercase)
                                     /\ In(c, ascii_uppercase)},
   PUNCTUATION |-> {c \in list : ~In(c, digits) /\ ~In(c, ascii_lowercase)
                                 /\ ~In(c, ascii_uppercase)}]

\* bool(chars) as an integer
Bool(chars) == IF chars = {} THEN 0 ELSE 1

\* mutant: the last bucket is left out of the sum
CountMissingBucket(b) == Bool(b.DIGITS) + Bool(b.PUNCTUATION) + Bool(b.ASCII_LOWERCASE)

\* count = sum([bool(DIGITS), bool(PUNCTUATION), bool(ASCII_LOWERCASE), bool(ASCII_UPPERCASE)])
Count(b) == Bool(b.DIGITS) + Bool(b.PUNCTUATION)
            + Bool(b.ASCII_LOWERCASE) + Bool(b.ASCII_UPPERCASE)

\* the list the guarantee loop walks
BucketOrder == <<"DIGITS", "PUNCTUATION", "ASCII_LOWERCASE", "ASCII_UPPERCASE">>

\* secrets.choice(seq): the values it can return
choice(chars) == chars

\* secrets.randbelow(n): the values it can return
randbelow(n) == 0 .. (n - 1)

\* mutant: append instead of insert
InsertAppend(p, at, c) == Append(p, c)

\* list.insert(at, c) for 0 <= at <= len(list)
Insert(p, at, c) == SubSeq(p, 1, at) \o <<c>> \o SubSeq(p, at + 1, Len(p))

\* ''.join(password): every element is one character
Join(p) == [n \in 1 .. Len(p) |-> p[n]]

\* mutant: the balance branch is taken from length 3
BalancedFrom3(ns) == ns.length >= 3 /\ ~ns.pure

\* namespace.length >= 4 and not namespace.pure
Balanced(ns) == ns.length >= 4 /\ ~ns.pure

\* every password the balance branch can build: length - count draws from the
\* whole list, then for every non-empty bucket one of its characters inserted
\* at any index
GuaranteeAll(S, chars) ==
  IF chars = {} THEN S
  ELSE UNION {{Insert(p, at, c) : at \in randbelow(Len(p) + 1), c \in choice(chars)}
              : p \in S}

Outcomes(list, len) ==
  LET b == Classify(list)
      filled == [1 .. (len - Count(b)) -> choice(list)]
      g1 == GuaranteeAll(filled, b[BucketOrder[1]])
      g2 == GuaranteeAll(g1, b[BucketOrder[2]])
      g3 == GuaranteeAll(g2, b[BucketOrder[3]])
  IN GuaranteeAll(g3, b[BucketOrder[4]])

----------------------------------------------------------------------------
\* the state after argument parsing, for a set of flag combinations

InitWith(FlagChoices) ==
  /\ namespace \in [length : 0 .. MaxLength, flags : FlagChoices,
                    exclude : ExcludeArgs, include : IncludeArgs, pure : BOOLEAN]
  /\ excluded_set = {}
  /\ included_set = {}
  /\ character_set = {}
  /\ character_list = {}
  /\ password = <<>>
  /\ buckets = Classify({})
  /\ count = 0
  /\ i = 0
  /\ pc = "length"
  /\ error = "none"
  /\ output = NoOutput
  /\ draws = 0

\* no flag or one flag
Init == InitWith({{}} \cup {{f} : f \in Flags})

\* up to MaxFlags flags
InitCharset == InitWith({f \in SUBSET Flags : Cardinality(f) <= MaxFlags})

\* sys.exit(message)
Exit(kind) ==
  /\ pc' = "exit"
  /\ error' = kind

ValidateLength ==
  /\ pc = "length"
  /\ IF LengthInvalid(namespace.length)
       THEN /\ Exit("length")
            /\ UNCHANGED <<excluded_set, included_set>>
       ELSE /\ pc' = "sanitize"
            /\ excluded_set' = set(namespace.exclude)
            /\ included_set' = set(namespace.include)
            /\ UNCHANGED error
  /\ UNCHANGED <<namespace, character_set, character_list, password, buckets,
                 count, i, output, draws>>

Sanitize ==
  /\ pc = "sanitize"
  /\ IF Unauthorized(excluded_set, included_set) # {}
       THEN Exit("unauthorized")
       ELSE pc' = "conflict" /\ UNCHANGED error
  /\ UNCHANGED <<namespace, excluded_set, included_set, character_set,
                 character_list, password, buckets, count, i, output, draws>>

CheckConflict ==
  /\ pc = "conflict"
  /\ IF Conflict(excluded_set, included_set) # {}
       THEN Exit("conflict")
       ELSE pc' = "phase1" /\ UNCHANGED error
  /\ UNCHANGED <<namespace, excluded_set, included_set, character_set,
                 character_list, password, buckets, count, i, output, draws>>

BuildBase ==
  /\ pc = "phase1"
  /\ character_set' = Phase1(namespace.flags \ {"empty"}, "empty" \in namespace.flags)
  /\ pc' = "phase2"
  /\ UNCHANGED <<namespace, excluded_set, included_set, character_list,
                 password, buckets, count, i, error, output, draws>>

Adjust ==
  /\ pc = "phase2"
  /\ character_set' = Phase2(character_set, included_set, excluded_set)
  /\ pc' = "list"
  /\ UNCHANGED <<namespace, excluded_set, included_set, character_list,
                 password, buckets, count, i, error, output, draws>>

\* character_list = list(character_set): the order of the list is never
\* observed (only choice reads it), so the list is kept as its elements.
MakeList ==
  /\ pc = "list"
  /\ character_list' = character_set
  /\ IF character_set = {}
       THEN Exit("empty")
       ELSE pc' = "branch" /\ UNCHANGED error
  /\ UNCHANGED <<namespace, excluded_set, included_set, character_set,
                 password, buckets, count, i, output, draws>>

Branch ==
  /\ pc = "branch"
  /\ IF Balanced(namespace)
       THEN /\ buckets' = Classify(character_list)
            /\ count' = Count(Classify(character_list))
            /\ pc' = "fill"
       ELSE /\ pc' = "pure"
            /\ UNCHANGED <<buckets, count>>
  /\ i' = 0
  /\ UNCHANGED <<namespace, excluded_set, included_set, character_set,
                 character_list, password, error, output, draws>>

\* for i in range(namespace.length - count): password.append(choice(character_list))
Fill ==
  /\ pc = "fill"
  /\ i < namespace.length - count
  /\ \E c \in choice(character_list) : password' = Append(password, c)
  /\ i' = i + 1
  /\ draws' = draws + 1
  /\ UNCHANGED <<namespace, excluded_set, included_set, character_set,
                 character_list, buckets, count, pc, error, output>>

FillDone ==
  /\ pc = "fill"
  /\ ~(i < namespace.length - count)
  /\ pc' = "guarantee"
  /\ i' = 1
  /\ UNCHANGED <<namespace, excluded_set, included_set, character_set,
                 character_list, password, buckets, count, error, output, draws>>

\* one iteration of the loop over the four buckets, bucket not empty
Guarantee ==
  /\ pc = "guarantee"
  /\ i <= Len(BucketOrder)
  /\ buckets[BucketOrder[i]] # {}
  /\ \E at \in randbelow(Len(password) + 1) :
       \E c \in choice(buckets[BucketOrder[i]]) :
         password' = Insert(password, at, c)
  /\ i' = i + 1
  /\ draws' = draws + 2
  /\ UNCHANGED <<namespace, excluded_set, included_set, character_set,
                 character_list, buckets, count, pc, error, output>>

\* one iteration of the loop over the four buckets, bucket empty
GuaranteeSkip ==
  /\ pc = "guarantee"
  /\ i <= Len(BucketOrder)
  /\ buckets[BucketOrder[i]] = {}
  /\ i' = i + 1
  /\ UNCHANGED <<namespace, excluded_set, included_set, character_set,
                 character_list, password, buckets, count, pc, error, output, draws>>

GuaranteeDone ==
  /\ pc = "guarantee"
  /\ i > Len(BucketOrder)
  /\ pc' = "print"
  /\ UNCHANGED <<namespace, excluded_set, included_set, character_set,
                 character_list, password, buckets, count, i, error, output, draws>>

\* for i in range(namespace.length): password.append(choice(character_list))
Pure ==
  /\ pc = "pure"
  /\ i < namespace.length
  /\ \E c \in choice(character_list) : password' = Append(password, c)
  /\ i' = i + 1
  /\ draws' = draws + 1
  /\ UNCHANGED <<namespace, excluded_set, included_set, character_set,
                 character_list, buckets, count, pc, error, output>>

PureDone ==
  /\ pc = "pure"
  /\ ~(i < namespace.length)
  /\ pc' = "print"
  /\ UNCHANGED <<namespace, excluded_set, included_set, character_set,
                 character_list, password, buckets, count, i, error, output, draws>>

PrintPassword ==
  /\ pc = "print"
  /\ output' = Join(password)
  /\ pc' = "done"
  /\ UNCHANGED <<namespace, excluded_set, included_set, character_set,
                 character_list, password, buckets, count, i, error, draws>>

Next ==
  \/ ValidateLength
  \/ Sanitize
  \/ CheckConflict
  \/ BuildBase
  \/ Adjust
  \/ MakeList
  \/ Branch
  \/ Fill
  \/ FillDone
  \/ Guarantee
  \/ GuaranteeSkip
  \/ GuaranteeDone
  \/ Pure
  \/ PureDone
  \/ PrintPassword

Spec == Init /\ [][Next]_vars

\* the run up to the built character list, over more flag combinations
NextCharset ==
  \/ ValidateLength
  \/ Sanitize
  \/ CheckConflict
  \/ BuildBase
  \/ Adjust
  \/ MakeList

SpecCharset == InitCharset /\ [][NextCharset]_vars

TypeOK ==
  /\ pc \in {"length", "sanitize", "conflict", "phase1", "phase2", "list", "branch",
             "fill", "guarantee", "pure", "print", "done", "exit"}
  /\ error \in {"none", "length", "unauthorized", "conflict", "empty"}
  /\ character_list \subseteq ALL
  /\ count \in 0 .. 4

----------------------------------------------------------------------------
\* what the properties speak about, stated from the inputs alone

\* the four categories of the balance guarantee
Categories == {DIGIT, SYMBOL, LOWERCASE, UPPERCASE}

\* the member set of a category flag
FlagSet(f) ==
  CASE f = "lowercase" -> LOWERCASE
    [] f = "uppercase" -> UPPERCASE
    [] f = "letter" -> LETTER
    [] f = "digit" -> DIGIT
    [] f = "alphanumeric" -> ALPHANUMERIC
    [] f = "symbol" -> SYMBOL
    [] f = "all" -> ALL
    [] f = "binary" -> BINARY
    [] f = "octal" -> OCTAL
    [] f = "hex_lower" -> HEX_LOWER
    [] f = "hex_upper" -> HEX_UPPER

CategoryFlags(ns) == ns.flags \ {"empty"}

\* the base set: the union of the flagged sets, or the default
BaseSet(ns) ==
  IF CategoryFlags(ns) = {} /\ "empty" \notin ns.flags
    THEN ALL
    ELSE UNION {FlagSet(f) : f \in CategoryFlags(ns)}

\* (base set + included) - excluded
WorkingAlphabet(ns) == (BaseSet(ns) \cup set(ns.include)) \ set(ns.exclude)

HasDisallowed(ns) == \E c \in set(ns.include) \cup set(ns.exclude) : c \notin ALL
Overlap(ns) == set(ns.include) \cap set(ns.exclude) # {}

ValidInput(ns) ==
  /\ ns.length > 0
  /\ ~HasDisallowed(ns)
  /\ ~Overlap(ns)
  /\ WorkingAlphabet(ns) # {}

\* the positions of a string holding a character of a category
Positions(s, cat) == {n \in DOMAIN s : s[n] \in cat}

Sampling == {"branch", "fill", "guarantee", "pure", "print", "done"}

\* C1: for every valid input the printed password has exactly the requested
\* number of characters, in balance mode and in pure mode, below and from 4.
C1_OutputLength ==
  (pc = "done" /\ ValidInput(namespace)) => Len(output) = namespace.length

C1_Witness ==
  /\ pc = "done"
  /\ ValidInput(namespace)
  /\ Balanced(namespace)
  /\ count = 3
  /\ Len(output) = namespace.length

\* C2: every character of the printed password belongs to the working
\* alphabet, and no character of the exclude string is ever printed.
C2_OutputInAlphabet ==
  (pc = "done" /\ ValidInput(namespace)) =>
    \A n \in DOMAIN output :
      /\ output[n] \in WorkingAlphabet(namespace)
      /\ output[n] \notin set(namespace.exclude)

C2_Witness ==
  /\ pc = "done"
  /\ Balanced(namespace)
  /\ namespace.exclude = <<"9", "z">>
  /\ Positions(output, DIGIT) # {}
  /\ Positions(output, LOWERCASE) # {}

\* C3: with length at least 4 and balance mode on, the printed password holds
\* at least one character of every category the working alphabet meets.
C3_Balance ==
  (pc = "done" /\ namespace.length >= 4 /\ ~namespace.pure) =>
    \A cat \in Categories :
      cat \cap WorkingAlphabet(namespace) # {} => Positions(output, cat) # {}

C3_Witness ==
  /\ pc = "done"
  /\ namespace.length >= 4
  /\ ~namespace.pure
  /\ Cardinality({cat \in Categories : cat \cap WorkingAlphabet(namespace) # {}}) = 2
  /\ \A cat \in Categories :
       cat \cap WorkingAlphabet(namespace) # {} => Positions(output, cat) # {}

\* C4: for every input that passes validation the alphabet used for sampling
\* is (base set + included characters) - excluded characters, the base set
\* being the union of the member sets of the flagged categories.
C4_Alphabet ==
  /\ pc \in Sampling => character_list = WorkingAlphabet(namespace)
  /\ (pc = "exit" /\ error = "empty") => WorkingAlphabet(namespace) = {}

C4_Witness ==
  /\ pc = "branch"
  /\ Cardinality(CategoryFlags(namespace)) = 2
  /\ namespace.include = <<"@">>
  /\ namespace.exclude = <<"9", "z">>
  /\ "@" \in character_list
  /\ "9" \notin character_list
  /\ "1" \in character_list

\* C5: the base set is the full set by default exactly when no category flag
\* is selected and --empty is not given; with no category flag and --empty the
\* base set is empty and the working alphabet is the included characters; with
\* a category flag the base set is the union of the flagged sets.
C5_DefaultBase ==
  /\ pc = "phase2" =>
       /\ (CategoryFlags(namespace) = {} /\ "empty" \notin namespace.flags)
             => character_set = ALL
       /\ (CategoryFlags(namespace) = {} /\ "empty" \in namespace.flags)
             => character_set = {}
       /\ CategoryFlags(namespace) # {}
             => character_set = UNION {FlagSet(f) : f \in CategoryFlags(namespace)}
  /\ (pc = "branch" /\ CategoryFlags(namespace) = {} /\ "empty" \in namespace.flags)
       => character_list = set(namespace.include)

C5_Witness ==
  /\ pc = "branch"
  /\ namespace.flags = {"empty"}
  /\ character_list = {"a", "1"}

\* C6: when the include and exclude strings share a character, all their
\* characters are permitted and the length is positive, the run ends with the
\* conflict error and prints no password, whatever the flags.
C6_Conflict ==
  (Overlap(namespace) /\ ~HasDisallowed(namespace) /\ namespace.length > 0) =>
    /\ output = NoOutput
    /\ pc \in {"length", "sanitize", "conflict", "exit"}
    /\ pc = "exit" => error = "conflict"

C6_Witness ==
  /\ Overlap(namespace)
  /\ ~HasDisallowed(namespace)
  /\ namespace.flags = {"digit"}
  /\ pc = "exit"
  /\ error = "conflict"

\* C7 as stated: when the include or exclude string holds a character outside
\* the permitted set, the run ends with the invalid-character error and prints
\* no password.
C7_Original ==
  HasDisallowed(namespace) =>
    /\ output = NoOutput
    /\ pc \in {"length", "sanitize", "exit"}
    /\ pc = "exit" => error = "unauthorized"

\* C7 amended: when the length is positive and the include or exclude string
\* holds a character outside the permitted set, the run ends with the
\* invalid-character error and prints no password.
C7_Unauthorized ==
  (HasDisallowed(namespace) /\ namespace.length > 0) =>
    /\ output = NoOutput
    /\ pc \in {"length", "sanitize", "exit"}
    /\ pc = "exit" => error = "unauthorized"

C7_Witness ==
  /\ namespace.exclude = <<"a", " ">>
  /\ namespace.include = <<>>
  /\ namespace.length > 0
  /\ pc = "exit"
  /\ error = "unauthorized"

\* C8: a run with a non-positive length, a disallowed include/exclude
\* character, an include/exclude overlap or an empty working alphabet never
\* reaches sampling: no random draw is made and no password is printed; and
\* every fatal exit happens before the first draw.
C8_ErrorsBeforeSampling ==
  /\ ~ValidInput(namespace) =>
       /\ draws = 0
       /\ password = <<>>
       /\ output = NoOutput
       /\ pc \notin Sampling
  /\ pc = "exit" =>
       /\ ~ValidInput(namespace)
       /\ error # "none"
       /\ draws = 0
       /\ output = NoOutput

C8_Witness ==
  /\ pc = "exit"
  /\ error = "empty"
  /\ namespace.flags = {"symbol"}
  /\ namespace.exclude = <<"@">>
  /\ draws = 0

\* C9: with length exactly 4, balance mode on and all four categories met by
\* the working alphabet, the printed password holds exactly one character of
\* each category.
C9_ExactlyOneEach ==
  (/\ pc = "done"
   /\ namespace.length = 4
   /\ ~namespace.pure
   /\ \A cat \in Categories : cat \cap WorkingAlphabet(namespace) # {}) =>
    \A cat \in Categories : Cardinality(Positions(output, cat)) = 1

C9_Witness ==
  /\ pc = "done"
  /\ namespace.length = 4
  /\ ~namespace.pure
  /\ namespace.flags = {}
  /\ \A cat \in Categories : Cardinality(Positions(output, cat)) = 1

\* the strings of a length over an alphabet that hold a character of every
\* category the alphabet meets
BalancedStrings(list, len) ==
  {s \in [1 .. len -> list] :
     \A cat \in Categories : cat \cap list # {} => Positions(s, cat) # {}}

\* C10: in balance mode with length at least 4 every string of that length
\* over the working alphabet that holds a character of each non-empty category
\* is a possible output, and exactly length - (number of non-empty buckets)
\* characters are drawn from the full alphabet.
C10_AnyOrder ==
  /\ (pc = "fill" /\ i = 0) =>
       Outcomes(character_list, namespace.length)
         = BalancedStrings(WorkingAlphabet(namespace), namespace.length)
  /\ (pc = "guarantee" /\ i = 1) =>
       Len(password) = namespace.length
         - Cardinality({cat \in Categories : cat \cap WorkingAlphabet(namespace) # {}})

C10_Witness ==
  /\ pc = "done"
  /\ Balanced(namespace)
  /\ count = 4
  /\ output[1] \in UPPERCASE
  /\ output[Len(output)] \in DIGIT
  /\ output \in Outcomes(character_list, namespace.length)
====
